---- MODULE Spec2Model ----
\* Model of make-data-file.py: a command-line generator of test data that
\* prints `count` Gaussian samples, one per line or embedded in CSV rows
\* whose other columns are produced by filler generators chosen at startup.
\*
\* Text is modelled as a sequence of one-character strings, so that str(),
\* ",".join() and the reader's split(",") are computed, not assumed.
\* Floating-point values are modelled in fixed point, as an integer number
\* of tenths (25 stands for 2.5).
EXTENDS Integers, Sequences, FiniteSets, TLC

\* ---------------------------------------------------------------- bounds
MaxCount == 2
MaxCols == 3

\* ------------------------------------------------------- program constants
RandLo == -1000
RandHi == 1000
MinStrLen == 1
MaxStrLen == 8
SeqIntInit == -1

None == "None"

\* ------------------------------------------------------------ input sets
Counts == -1 .. MaxCount
Distrs == {"gauss", "uniform"}
\* --csv-col: <<>> when absent (None), <<k>> when given as the integer k
CsvCols == {<<>>} \cup {<<k>> : k \in -1 .. MaxCols}
CsvColMaxes == -1 .. MaxCols
Means == {0, 25}
Stdevs == {0, 10}
\* standard normal deviates the sampler may return, in tenths
ZDraws == {-15, 5}
\* values random.randint(-1000, 1000) may return
RandInts == {RandLo, RandHi}
\* (length, letters) pairs _random_str may draw
StrDraws ==
  { <<MinStrLen, <<"a">>>>,
    <<MaxStrLen, <<"z", "a", "q", "x", "m", "b", "k", "z">>>> }

\* --------------------------------------------------------- text functions
DigitChar(d) == <<"0", "1", "2", "3", "4", "5", "6", "7", "8", "9">>[d + 1]

RECURSIVE NatStr(_)
NatStr(n) ==
  IF n < 10 THEN <<DigitChar(n)>>
  ELSE NatStr(n \div 10) \o <<DigitChar(n % 10)>>

\* str(int)
IntStr(n) == IF n < 0 THEN <<"-">> \o NatStr(-n) ELSE NatStr(n)

\* str(float) for a value t given in tenths: "-1.5", "0.0", "2.5"
FloatStr(t) ==
  LET a == IF t < 0 THEN -t ELSE t
  IN  (IF t < 0 THEN <<"-">> ELSE <<>>)
        \o NatStr(a \div 10) \o <<".">> \o <<DigitChar(a % 10)>>

\* ",".join(data)
RECURSIVE Join(_)
Join(data) ==
  IF Len(data) = 0 THEN <<>>
  ELSE IF Len(data) = 1 THEN data[1]
  ELSE data[1] \o <<",">> \o Join(Tail(data))

\* the line printed in non-CSV mode: print(x)
PrintOneInt(x) == IntStr(x \div 10)
print_one_plain(x) == FloatStr(x)

\* --------------------------------------------------- generators (l. 6-21)
_random_int(r) == r

SeqIntPre(n) == [N |-> n + 1, ret |-> n]
SeqIntNoStore(n) == [N |-> n, ret |-> n + 1]
_seq_int(n) == [N |-> n + 1, ret |-> n + 1]

\* random.gauss(0.0, 100.0); defined by the program but not in RANDOM_CTORS
_random_double(z) == (z * 1000) \div 10

_random_str(d) == [i \in 1 .. d[1] |-> d[2][i]]

RANDOM_CTORS == <<"_random_int", "_seq_int", "_random_str", "_random_str">>

\* rng(): random.gauss(mean, stdev) = mean + z * stdev, z a normal deviate
rng(mean, stdev, z) == mean + (z * stdev) \div 10

\* ----------------------------------------------------------- the program
VARIABLES
  pc,           \* position in main()
  args,         \* the command line as given / parsed
  N,            \* _seq_int.N
  print_one,    \* which print_one closure is defined: "undef", "plain", "csv"
  other_ctors,  \* the filler plan (None at the value column)
  x,            \* number of loop iterations completed
  out,          \* lines written to standard output
  status,       \* process exit status
  rows,         \* history: per emitted row, the sample and the ctors invoked
  seq_calls,    \* history: number of _seq_int invocations
  samples       \* history: number of rng() calls

vars == <<pc, args, N, print_one, other_ctors, x, out, status, rows,
          seq_calls, samples>>

EXIT_RUNNING == "running"
EXIT_OK == "exit_0"
ParserErrorOK == "exit_0"
ParserError == "exit_2"
AssertionErrorExit == "exit_1"

Args ==
  [count : Counts, distr : Distrs, mean : Means, stdev : Stdevs,
   csv_col : CsvCols, csv_col_max : CsvColMaxes]

Init ==
  /\ pc = "parse"
  /\ args \in Args
  /\ N = SeqIntInit
  /\ print_one = "undef"
  /\ other_ctors = <<>>
  /\ x = 0
  /\ out = <<>>
  /\ status = EXIT_RUNNING
  /\ rows = <<>>
  /\ seq_calls = 0
  /\ samples = 0

\* parser.parse_args(): --distr is restricted to choices=["gauss"]
DistrChoices == {"gauss"}

ParseArgs ==
  /\ pc = "parse"
  /\ IF args.distr \in DistrChoices
       THEN /\ pc' = "distr"
            /\ status' = status
       ELSE /\ pc' = "failed"
            /\ status' = ParserError
  /\ UNCHANGED <<args, N, print_one, other_ctors, x, out, rows, seq_calls,
                 samples>>

\* if args.distr == "gauss": def rng ... else: raise AssertionError
SelectDistr ==
  /\ pc = "distr"
  /\ IF args.distr = "gauss"
       THEN /\ pc' = "mode"
            /\ status' = status
       ELSE /\ pc' = "failed"
            /\ status' = AssertionErrorExit
  /\ UNCHANGED <<args, N, print_one, other_ctors, x, out, rows, seq_calls,
                 samples>>

\* one entry of other_ctors: the chosen ctor, or None at the value column
PlanEntryOffByOne(i, csv_col, choice) ==
  IF i + 1 # csv_col THEN choice ELSE None
PlanEntry(i, csv_col, choice) == IF i # csv_col THEN choice ELSE None

\* range(n) has max(n, 0) elements
RangeLen(n) == IF n < 0 THEN 0 ELSE n

\* the pool random.choice draws from
ChoicePoolWide == {"_random_int", "_seq_int", "_random_str", "_random_double"}
ChoicePool == {RANDOM_CTORS[j] : j \in 1 .. Len(RANDOM_CTORS)}

\* if args.csv_col is None: def print_one (plain)
\* else: other_ctors = [...]; def print_one (csv)
SelectMode ==
  /\ pc = "mode"
  /\ IF args.csv_col = <<>>
       THEN /\ print_one' = "plain"
            /\ other_ctors' = other_ctors
       ELSE /\ print_one' = "csv"
            /\ \E choice \in [1 .. RangeLen(args.csv_col_max) -> ChoicePool] :
                 other_ctors' =
                   [i \in 1 .. RangeLen(args.csv_col_max) |->
                      PlanEntry(i - 1, args.csv_col[1], choice[i])]
  /\ pc' = "loop"
  /\ UNCHANGED <<args, N, x, out, status, rows, seq_calls, samples>>

\* what a ctor can draw from the random source
DrawSet(ctor) ==
  IF ctor = "_random_int" THEN RandInts
  ELSE IF ctor = "_random_str" THEN StrDraws
  ELSE IF ctor = "_random_double" THEN ZDraws
  ELSE {0}

\* str(ctor()) if ctor is not None else str(x), with the counter threaded
Field(ctor, v, n, d) ==
  IF ctor = None THEN [s |-> FloatStr(v), N |-> n, calls |-> 0]
  ELSE IF ctor = "_random_int"
    THEN [s |-> IntStr(_random_int(d)), N |-> n, calls |-> 0]
  ELSE IF ctor = "_seq_int"
    THEN [s |-> IntStr(_seq_int(n).ret), N |-> _seq_int(n).N, calls |-> 1]
  ELSE IF ctor = "_random_double"
    THEN [s |-> FloatStr(_random_double(d)), N |-> n, calls |-> 0]
  ELSE [s |-> _random_str(d), N |-> n, calls |-> 0]

\* the list comprehension of print_one, evaluated left to right from
\* column i on; acc carries the fields built so far and the counter
RECURSIVE RowOutcomes(_, _, _, _)
RowOutcomes(ctors, v, i, acc) ==
  IF i > Len(ctors) THEN {acc}
  ELSE UNION
    { LET f == Field(ctors[i], v, acc.N, d)
      IN  RowOutcomes(ctors, v, i + 1,
            [data |-> Append(acc.data, f.s), N |-> f.N,
             calls |-> acc.calls + f.calls,
             used |-> Append(acc.used, ctors[i])])
      : d \in DrawSet(ctors[i]) }

print_one_csv(v, ctors, n) ==
  RowOutcomes(ctors, v, 1, [data |-> <<>>, N |-> n, calls |-> 0, used |-> <<>>])

\* the condition under which the for loop runs another iteration
LoopGuardLeq(i, count) == i <= count
LoopGuardNeq(i, count) == i # count
LoopGuard(i, count) == i < count

\* one iteration of: for x in range(args.count): print_one(rng())
LoopStep ==
  /\ pc = "loop"
  /\ LoopGuard(x, args.count)
  /\ \E z \in ZDraws :
       LET v == rng(args.mean, args.stdev, z)
       IN  IF print_one = "plain"
             THEN /\ out' = Append(out, print_one_plain(v))
                  /\ rows' = Append(rows, [v |-> v, used |-> <<>>])
                  /\ UNCHANGED <<N, seq_calls>>
             ELSE \E o \in print_one_csv(v, other_ctors, N) :
                    /\ out' = Append(out, Join(o.data))
                    /\ rows' = Append(rows, [v |-> v, used |-> o.used])
                    /\ N' = o.N
                    /\ seq_calls' = seq_calls + o.calls
  /\ x' = x + 1
  /\ samples' = samples + 1
  /\ UNCHANGED <<pc, args, print_one, other_ctors, status>>

\* the loop is exhausted and main() returns
Finish ==
  /\ pc = "loop"
  /\ ~LoopGuard(x, args.count)
  /\ pc' = "done"
  /\ status' = EXIT_OK
  /\ UNCHANGED <<args, N, print_one, other_ctors, x, out, rows, seq_calls,
                 samples>>

Next == ParseArgs \/ SelectDistr \/ SelectMode \/ LoopStep \/ Finish

Spec == Init /\ [][Next]_vars

\* ------------------------------------------------ reading the output back
\* line.split(",")
RECURSIVE SplitFrom(_, _, _)
SplitFrom(s, i, cur) ==
  IF i > Len(s) THEN <<cur>>
  ELSE IF s[i] = "," THEN <<cur>> \o SplitFrom(s, i + 1, <<>>)
  ELSE SplitFrom(s, i + 1, Append(cur, s[i]))

Split(s) == SplitFrom(s, 1, <<>>)

DigitVal(c) == CHOOSE d \in 0 .. 9 : DigitChar(d) = c

RECURSIVE ParseNat(_)
ParseNat(s) ==
  IF Len(s) = 0 THEN 0
  ELSE ParseNat(SubSeq(s, 1, Len(s) - 1)) * 10 + DigitVal(s[Len(s)])

\* int(text)
ParseInt(s) == IF s[1] = "-" THEN -ParseNat(Tail(s)) ELSE ParseNat(s)

Gauss == args.distr = "gauss"
CsvMode == args.csv_col # <<>>
K == args.csv_col[1]
M == args.csv_col_max
InRange == CsvMode /\ 0 <= K /\ K < M
OutOfRange == CsvMode /\ ~(0 <= K /\ K < M)
Fields(r) == Split(out[r])
FillerKinds == {"_random_int", "_seq_int", "_random_str"}
SeqCols == {c \in 1 .. Len(other_ctors) : other_ctors[c] = "_seq_int"}
\* 0-based position of column c among the sequential columns, left to right
Rank(c) == Cardinality({d \in SeqCols : d < c})
Built == pc \in {"loop", "done"}

\* the text a filler of the given kind can produce
IsFillerText(kind, f) ==
  IF kind = "_random_int" THEN f \in {IntStr(i) : i \in RandInts}
  ELSE IF kind = "_random_str" THEN f \in {_random_str(d) : d \in StrDraws}
  ELSE kind = "_seq_int" /\ ParseInt(f) >= 0 /\ IntStr(ParseInt(f)) = f

\* ------------------------------------------------------------------ claims

\* C1: for a supported distribution and count = N >= 0, in either output
\* mode, the run never fails, never has more than N lines written, and when
\* it has finished it has written exactly N lines and exits with success.
C1_ExactlyCountLines ==
  (Gauss /\ args.count >= 0) =>
    /\ pc # "failed"
    /\ Len(out) <= args.count
    /\ samples = Len(out)
    /\ (pc = "done" => Len(out) = args.count /\ status = EXIT_OK)

C1_Witness ==
  /\ pc = "done" /\ Gauss /\ CsvMode
  /\ args.count = 2 /\ Len(out) = 2 /\ M = 2

\* C2: with --distr other than "gauss" the process can only fail, with a
\* non-zero status, and at no point is a line written, a sample drawn, a
\* filler plan built or the sequential counter changed.
C2_InvalidDistrFails ==
  (~Gauss) =>
    /\ pc \in {"parse", "failed"}
    /\ (pc = "failed" => status \notin {EXIT_OK, EXIT_RUNNING})
    /\ out = <<>> /\ samples = 0
    /\ print_one = "undef" /\ other_ctors = <<>>
    /\ N = SeqIntInit /\ seq_calls = 0

C2_Witness == pc = "failed" /\ args.distr = "uniform" /\ CsvMode

\* C3: in CSV mode with 0 <= k < M, every emitted line splits into exactly M
\* fields, field k is the text of the value sampled for that row, and every
\* other field is the text of a filler generator's output, never the sample.
C3_CsvRowShape ==
  InRange =>
    \A r \in 1 .. Len(out) :
      /\ Len(Fields(r)) = M
      /\ Fields(r)[K + 1] = FloatStr(rows[r].v)
      /\ \A c \in (1 .. M) \ {K + 1} :
           /\ rows[r].used[c] \in FillerKinds
           /\ IsFillerText(rows[r].used[c], Fields(r)[c])
           /\ Fields(r)[c] # FloatStr(rows[r].v)

C3_Witness ==
  /\ pc = "done" /\ InRange /\ M = 3 /\ K = 1 /\ Len(out) = 2
  /\ other_ctors[1] = "_seq_int" /\ other_ctors[3] = "_random_str"

\* C4: in CSV mode no row is emitted before the plan exists, every
\* non-target column of the plan holds a kind from the pool {random integer,
\* sequential counter, random string}, every emitted row used for each column
\* the kind the plan holds, and the plan does not change once rows are emitted.
C4_PlanFixed ==
  /\ [](CsvMode =>
          /\ (print_one = "undef" => out = <<>>)
          /\ (Built =>
                /\ print_one = "csv"
                /\ Len(other_ctors) = RangeLen(M)
                /\ \A c \in 1 .. Len(other_ctors) :
                     IF c = K + 1 THEN other_ctors[c] = None
                     ELSE other_ctors[c] \in FillerKinds)
          /\ \A r \in 1 .. Len(out) : rows[r].used = other_ctors)
  /\ [][Built => other_ctors' = other_ctors]_vars

C4_Witness ==
  /\ pc = "done" /\ CsvMode /\ Len(out) = 2 /\ M = 3 /\ K = 0
  /\ other_ctors[2] = "_random_int" /\ other_ctors[3] = "_random_str"

\* C5 (as stated): every sequential column holds strictly increasing
\* integers across consecutive rows and its first-row value is 0 or 1.
C5_FirstValueZeroOrOne ==
  \A c \in SeqCols :
    /\ \A r \in 1 .. Len(out) - 1 :
         ParseInt(Fields(r)[c]) < ParseInt(Fields(r + 1)[c])
    /\ (Len(out) >= 1 => ParseInt(Fields(1)[c]) \in {0, 1})

\* C5 (amended): every sequential column holds strictly increasing integers
\* across consecutive rows, with no reset, and the first-row value of the
\* j-th sequential column (0-based, left to right) is j: 0 for the leftmost.
C5_SeqColumnIncreasing ==
  \A c \in SeqCols :
    /\ \A r \in 1 .. Len(out) - 1 :
         ParseInt(Fields(r)[c]) < ParseInt(Fields(r + 1)[c])
    /\ (Len(out) >= 1 => ParseInt(Fields(1)[c]) = Rank(c))

C5_Witness ==
  /\ pc = "done" /\ Len(out) = 2 /\ Cardinality(SeqCols) = 3
  /\ ParseInt(Fields(1)[3]) = 2 /\ ParseInt(Fields(2)[3]) = 5

\* C6 (as stated): in CSV mode with csv-col outside [0, csv-col-max) the run
\* does not fail, ends with count lines, every row has csv-col-max fields,
\* every column is a filler and no field is the sample.
C6_OutOfRangeCountLines ==
  OutOfRange /\ Gauss =>
    /\ pc # "failed"
    /\ (pc = "done" => Len(out) = args.count /\ status = EXIT_OK)
    /\ (Built => \A c \in 1 .. Len(other_ctors) : other_ctors[c] \in FillerKinds)
    /\ \A r \in 1 .. Len(out) :
         /\ Len(rows[r].used) = M
         /\ \A c \in 1 .. Len(rows[r].used) :
              /\ rows[r].used[c] \in FillerKinds
              /\ Fields(r)[c] # FloatStr(rows[r].v)

\* C6 (amended): in CSV mode with csv-col outside [0, csv-col-max) the run
\* does not fail, ends with max(count, 0) lines, every row is the comma-join
\* of max(csv-col-max, 0) fields (an empty line when csv-col-max <= 0), every
\* column is a filler and no field is the sample.
C6_OutOfRangeAllFiller ==
  OutOfRange /\ Gauss =>
    /\ pc # "failed"
    /\ (pc = "done" => Len(out) = RangeLen(args.count) /\ status = EXIT_OK)
    /\ (Built =>
          /\ Len(other_ctors) = RangeLen(M)
          /\ \A c \in 1 .. Len(other_ctors) : other_ctors[c] \in FillerKinds)
    /\ \A r \in 1 .. Len(out) :
         /\ Len(rows[r].used) = RangeLen(M)
         /\ IF M <= 0 THEN out[r] = <<>> ELSE Len(Fields(r)) = M
         /\ \A c \in 1 .. Len(rows[r].used) :
              /\ rows[r].used[c] \in FillerKinds
              /\ IsFillerText(rows[r].used[c], Fields(r)[c])
              /\ Fields(r)[c] # FloatStr(rows[r].v)

C6_Witness ==
  /\ pc = "done" /\ OutOfRange /\ K = 3 /\ M = 3 /\ Len(out) = 2

\* C7 (as stated): the counter starts at 0 and has grown by exactly 1 per
\* invocation of the sequential filler, so it equals the number of
\* invocations made so far.
C7_CounterStartsAtZero == N = seq_calls

\* C7 (amended): the counter starts at -1 (so that the first invocation
\* returns 0), every invocation of the sequential filler increases it by
\* exactly 1, and no step decreases or resets it.
C7_CounterMonotone ==
  /\ N = -1
  /\ [][/\ N' >= N
        /\ N' - N = seq_calls' - seq_calls]_vars
  /\ [](N = seq_calls - 1)

C7_Witness == pc = "done" /\ seq_calls = 4 /\ N = 3

\* C8: in non-CSV mode every line is the text of that row's sample alone, no
\* filler plan exists, no filler is invoked, and the counter keeps its
\* initial value, whatever count and csv-col-max are.
C8_PlainMode ==
  (~CsvMode) =>
    /\ print_one \in {"undef", "plain"}
    /\ other_ctors = <<>>
    /\ N = SeqIntInit /\ seq_calls = 0
    /\ \A r \in 1 .. Len(out) :
         /\ out[r] = FloatStr(rows[r].v)
         /\ Fields(r) = <<FloatStr(rows[r].v)>>
         /\ rows[r].used = <<>>

C8_Witness ==
  /\ pc = "done" /\ ~CsvMode /\ Len(out) = 2 /\ M = 3
  /\ out[1] # out[2] /\ N = SeqIntInit

\* C9: with s >= 1 sequential columns, the j-th of them (0-based, left to
\* right) holds r*s + j in row r (0-based), and after r complete rows the
\* counter has advanced by exactly r*s.
C9_SharedCounterStride ==
  LET s == Cardinality(SeqCols)
  IN  (CsvMode /\ s >= 1) =>
        /\ \A r \in 1 .. Len(out) : \A c \in SeqCols :
             ParseInt(Fields(r)[c]) = (r - 1) * s + Rank(c)
        /\ N - SeqIntInit = x * s
        /\ seq_calls = x * s

C9_Witness ==
  /\ pc = "done" /\ Len(out) = 2 /\ SeqCols = {1, 3}
  /\ ParseInt(Fields(1)[3]) = 1 /\ ParseInt(Fields(2)[3]) = 3
  /\ ParseInt(Fields(2)[1]) - ParseInt(Fields(1)[1]) = 2

\* C10: a negative count is accepted and behaves like count = 0: the run
\* never fails, writes no line, draws no sample, leaves the counter alone,
\* ends with success, and in CSV mode the filler plan is still built.
C10_NegativeCount ==
  (Gauss /\ args.count < 0) =>
    /\ pc # "failed"
    /\ out = <<>> /\ samples = 0 /\ x = 0
    /\ N = SeqIntInit /\ seq_calls = 0
    /\ (pc = "done" => status = EXIT_OK)
    /\ (CsvMode /\ Built =>
          print_one = "csv" /\ Len(other_ctors) = RangeLen(M))

C10_Witness ==
  /\ pc = "done" /\ args.count < 0 /\ CsvMode /\ status = EXIT_OK
  /\ Len(other_ctors) = 3 /\ out = <<>>
====
